---------------------------- MODULE Spec2Model ----------------------------
(***************************************************************************)
(* A model of the MNIST digit classifier component (App.tsx): the drawing  *)
(* canvas, the one-shot model load, predict (preprocessCanvas, inference,  *)
(* softmax, ranking) and the "Save as 9" upload.                           *)
(*                                                                         *)
(* Numbers.  JavaScript numbers are IEEE doubles; TLC has 32 bit integers. *)
(*  - a score is an integer (exactly representable as a float);           *)
(*  - Math.exp(d) is the fixed-point value round(e^d * ExpOne);            *)
(*  - a probability is the fixed-point value round(p * ProbOne), obtained  *)
(*    by long division so that no intermediate product overflows;          *)
(*  - a tensor entry v is the exact rational v * NormalizedOne.            *)
(***************************************************************************)
EXTENDS Integers, Sequences, FiniteSets, TLC

(***************************************************************************)
(* Bounds of the model.                                                    *)
(***************************************************************************)
\* base score levels of the score vectors the ranking specification draws
MaxLevel == 1
\* widest and highest source raster (in pixels) preprocessCanvas is applied to
MaxW == 2
MaxH == 2
\* number of Predict clicks explored
MaxPredicts == 2
\* number of Save clicks explored
MaxSaves == 2

(***************************************************************************)
(* Program constants.                                                      *)
(***************************************************************************)
\* tempCanvas.width = tempCanvas.height = 28
TempSize == 28
\* number of digit classes: the length of the model's output vector
NumClasses == 10
\* fixed-point unit of Math.exp: Math.exp(0) = 1
ExpOne == 1000000
\* fixed-point unit of a probability
ProbOne == 100000000
\* base of the long division that computes x / sum
DivBase == 100
\* number of base-DivBase digits of a probability: DivBase^DivDigits = ProbOne
DivDigits == 4

VARIABLES
    \* ---- React state of the component (useState) ----
    isDrawing,            \* useState(false)
    predictions,          \* useState<Prediction[]>([]): the displayed Ranking
    session,              \* useState<InferenceSession | null>(null)
    uploadCount,          \* useState<number>(0)
    saveMessage,          \* useState<string>(''), as <<text, n>>
    canvasModified,       \* useState(false)
    currentDrawingSaved,  \* useState(false)
    \* ---- the canvas and the environment ----
    raster,               \* pixels of the drawing canvas (canvasRef.current)
    loadState,            \* the promise of InferenceSession.create
    pendingPredicts,      \* predict calls suspended at `await session.run`
    pendingSaves,         \* saveImage calls suspended at `await axios.put`
    console,              \* number of console.error calls, per message
    \* ---- history (what the environment has seen) ----
    loadCalls,            \* calls of InferenceSession.create
    predictCalls,         \* Predict clicks
    inferenceCalls,       \* calls of session.run
    saveCalls,            \* Save clicks
    putCalls,             \* calls of axios.put
    lastResponse,         \* the inference response that was fulfilled last
    fulfilled,            \* ids of the predict calls fulfilled since the last Clear
    stalePredicts,        \* suspended predict calls that were invoked before the last Clear
    putsSinceClear,       \* calls of axios.put since the last Clear
    \* ---- the pure functions, applied to drawn inputs ----
    phase,                \* "input" | "done" | "app"
    scores,               \* a ScoreVector
    shift,                \* a constant added to every score
    ranking,              \* Ranker(scores)
    rankingShifted,       \* Ranker(scores + shift)
    smoothing,            \* the platform's image smoothing takes part in drawImage
    tensor                \* preprocessCanvas(raster)

appVars == <<isDrawing, predictions, session, uploadCount, saveMessage,
             canvasModified, currentDrawingSaved, loadState, pendingPredicts,
             pendingSaves, console, loadCalls, predictCalls, inferenceCalls,
             saveCalls, putCalls, lastResponse, fulfilled, stalePredicts,
             putsSinceClear>>
pureVars == <<phase, scores, shift, ranking, rankingShifted, smoothing, tensor>>
vars == <<appVars, raster, pureVars>>

(***************************************************************************)
(* Arithmetic helpers.                                                     *)
(***************************************************************************)
Abs(x) == IF x < 0 THEN -x ELSE x

RECURSIVE SumSeq(_)
SumSeq(s) == IF s = <<>> THEN 0 ELSE s[1] + SumSeq(Tail(s))

\* round(num / den) for num, den >= 0, den > 0
RoundDiv(num, den) == (2 * num + den) \div (2 * den)

(***************************************************************************)
(* softmax (App.tsx 229-234).                                              *)
(***************************************************************************)
\* round(e^(-k) * ExpOne) for k = 0, 1, 2, ...; 0 from e^(-15) on (underflow)
ExpTable == <<1000000, 367879, 135335, 49787, 18316, 6738, 2479, 912, 335,
              123, 45, 17, 6, 2, 1>>
\* round(e^k * ExpOne) for k = 1, 2, 3, 4: used only when x - max > 0
ExpTablePos == <<2718282, 7389056, 20085537, 54598150>>

\* Math.expm1(d) for d <= 0: e^d - 1
MathExpm1(d) == (IF -d < Len(ExpTable) THEN ExpTable[1 - d] ELSE 0) - ExpOne

\* Math.exp(d), d an integer
MathExp(d) ==
    IF d <= 0
    THEN IF -d < Len(ExpTable) THEN ExpTable[1 - d] ELSE 0
    ELSE ExpTablePos[IF d < Len(ExpTablePos) THEN d ELSE Len(ExpTablePos)]

RECURSIVE MaxOf(_)
MaxOf(s) == IF Len(s) = 1 THEN s[1]
            ELSE LET m == MaxOf(Tail(s)) IN IF s[1] >= m THEN s[1] ELSE m

\* Math.max(0, ...arr)
MathMaxWithZero(arr) == IF MaxOf(arr) < 0 THEN 0 ELSE MaxOf(arr)

\* Math.max(...arr) of a non-empty array
MathMax(arr) == MaxOf(arr)

\* q, r: quotient so far and remainder; appends `digits` more base-DivBase digits
RECURSIVE LongDiv(_, _, _, _)
LongDiv(q, r, den, digits) ==
    IF digits = 0
    THEN IF 2 * r >= den THEN q + 1 ELSE q
    ELSE LongDiv(q * DivBase + (r * DivBase) \div den, (r * DivBase) % den,
                 den, digits - 1)

\* the value that stands for NaN (0 / 0): no probability is negative
NaN == -1

\* x / sum with the normalisation left out: x / 1
DivideByOne(x, sum) == LongDiv(x \div ExpOne, x % ExpOne, ExpOne, DivDigits)

\* x / sum, as a fixed-point probability: round(x / sum * ProbOne)
Divide(x, sum) ==
    IF sum = 0 THEN NaN ELSE LongDiv(x \div sum, x % sum, sum, DivDigits)

\* arr.reduce((a, b) => a + b) without an initial value throws on []
softmaxThrows(arr) == Len(arr) = 0

softmax(arr) ==
    LET max == MathMax(arr)
        exp == [i \in 1..Len(arr) |-> MathExp(arr[i] - max)]
        sum == SumSeq(exp)
    IN  [i \in 1..Len(arr) |-> Divide(exp[i], sum)]


(***************************************************************************)
(* The Ranker: predict, App.tsx 163-169.                                   *)
(***************************************************************************)
\* softmaxOutput.map((prob, index) => ({digit: index, probability: prob}))
\* the map with the digit numbered from 1
ToPredictionsFromOne(probs) ==
    [i \in 1..Len(probs) |-> [digit |-> i, probability |-> probs[i]]]

ToPredictions(probs) ==
    [i \in 1..Len(probs) |-> [digit |-> i - 1, probability |-> probs[i]]]

\* the comparator (a, b) => a.probability - b.probability: ascending
compareAscending(a, b) ==
    IF a.probability = NaN \/ b.probability = NaN THEN 0
    ELSE a.probability - b.probability

\* the comparator (a, b) => b.probability - a.probability; a NaN difference
\* counts as 0 in Array.prototype.sort
compare(a, b) ==
    IF a.probability = NaN \/ b.probability = NaN THEN 0
    ELSE b.probability - a.probability

\* x inserted into the sorted sequence s, behind every element that does not
\* compare greater than x: Array.prototype.sort is stable
RECURSIVE Insert(_, _)
Insert(s, x) ==
    IF s = <<>> THEN <<x>>
    ELSE IF compare(s[1], x) > 0 THEN <<x>> \o s
         ELSE <<s[1]>> \o Insert(Tail(s), x)

\* arr.sort(compare)
RECURSIVE SortFrom(_, _)
SortFrom(sorted, rest) ==
    IF rest = <<>> THEN sorted
    ELSE SortFrom(Insert(sorted, rest[1]), Tail(rest))

sort(arr) == SortFrom(<<>>, arr)

\* the Ranking predict builds from the output of session.run
Ranker(outputData) == sort(ToPredictions(softmax(outputData)))

(***************************************************************************)
(* preprocessCanvas (App.tsx 117-142).                                     *)
(*                                                                         *)
(* A raster is [w, h, px]: px[(y * w) + x + 1] is the RGBA quadruple of    *)
(* the pixel in column x, row y.                                           *)
(***************************************************************************)
White == <<255, 255, 255, 255>>
Black == <<0, 0, 0, 255>>
Transparent == <<0, 0, 0, 0>>

\* ctx.clearRect(0, 0, canvas.width, canvas.height)
BlankRaster(w, h) == [w |-> w, h |-> h, px |-> [k \in 1..(w * h) |-> Transparent]]

\* tensor entries are rationals with this denominator: v = entry / NormalizedOne
NormalizedOne == 3 * 255

\* the temporary canvas as created, without the white fill: transparent black
noFillRect == [k \in 1..(TempSize * TempSize) |-> Transparent]

\* tempCtx.fillStyle = 'white'; tempCtx.fillRect(0, 0, 28, 28)
fillRect == [k \in 1..(TempSize * TempSize) |-> White]

\* source-over compositing of one channel of src over dst
Over(srcC, srcA, dstC) == RoundDiv(srcC * srcA + dstC * (255 - srcA), 255)

Composite(src, dst) ==
    << Over(src[1], src[4], dst[1]), Over(src[2], src[4], dst[2]),
       Over(src[3], src[4], dst[3]), Over(255, src[4], dst[4]) >>

Pixel(canvas, x, y) == canvas.px[y * canvas.w + x + 1]

\* the source colour drawImage takes for destination pixel (dx, dy): the
\* nearest source pixel, or with image smoothing the mean of that pixel and
\* its right and lower neighbours (clamped at the border)
Sample(canvas, dx, dy, smooth) ==
    LET sx == (dx * canvas.w) \div TempSize
        sy == (dy * canvas.h) \div TempSize
        nx == IF sx + 1 < canvas.w THEN sx + 1 ELSE sx
        ny == IF sy + 1 < canvas.h THEN sy + 1 ELSE sy
        a  == Pixel(canvas, sx, sy)
        b  == Pixel(canvas, nx, sy)
        c  == Pixel(canvas, sx, ny)
        d  == Pixel(canvas, nx, ny)
    IN  IF smooth
        THEN [ch \in 1..4 |-> RoundDiv(a[ch] + b[ch] + c[ch] + d[ch], 4)]
        ELSE a

\* tempCtx.drawImage(canvas, 0, 0, canvas.width, canvas.height, 0, 0, 28, 28)
\* (\o <<>> makes TLC build the array once instead of once per read)
drawImage(temp, canvas, smooth) ==
    [k \in 1..(TempSize * TempSize) |->
        Composite(Sample(canvas, (k - 1) % TempSize, (k - 1) \div TempSize, smooth),
                  temp[k])] \o <<>>

\* tempCtx.getImageData(0, 0, 28, 28).data: four bytes per pixel, row-major
getImageData(temp) ==
    [j \in 1..(4 * TempSize * TempSize) |-> temp[((j - 1) \div 4) + 1][((j - 1) % 4) + 1]]

\* the loop body reading one byte too far: G, B and the alpha byte
NormalizeOffByOne(data, i) ==
    LET grayscale3 == data[i + 2] + data[i + 3] + data[i + 4]
        inverted3  == 3 * 255 - grayscale3
    IN  2 * inverted3 - NormalizedOne

\* one pass of the loop body at byte offset i (a multiple of 4):
\*   grayscale = (d[i] + d[i+1] + d[i+2]) / 3;  (255 - grayscale) / 255 * 2 - 1
Normalize(data, i) ==
    LET grayscale3 == data[i + 1] + data[i + 2] + data[i + 3]   \* 3 * grayscale
        inverted3  == 3 * 255 - grayscale3                      \* 3 * (255 - grayscale)
    IN  2 * inverted3 - NormalizedOne

preprocessCanvas(canvas, smooth) ==
    LET imageData == getImageData(drawImage(fillRect, canvas, smooth)) \o <<>>
    IN  [k \in 1..(TempSize * TempSize) |-> Normalize(imageData, 4 * (k - 1))]

(***************************************************************************)
(* Values of the variables a specification does not use.                   *)
(***************************************************************************)
NoResponse == [id |-> 0, scores |-> <<>>]
NoMessage == <<"", 0>>
ErrorKinds == {"Failed to load model", "Prediction error",
               "Error saving image to GitHub", "Error saving image"}

AppIdle ==
    /\ isDrawing = FALSE
    /\ predictions = <<>>
    /\ session = "null"
    /\ uploadCount = 0
    /\ saveMessage = NoMessage
    /\ canvasModified = FALSE
    /\ currentDrawingSaved = FALSE
    /\ loadState = "none"
    /\ pendingPredicts = {}
    /\ pendingSaves = {}
    /\ console = [k \in ErrorKinds |-> 0]
    /\ loadCalls = 0 /\ predictCalls = 0 /\ inferenceCalls = 0
    /\ saveCalls = 0 /\ putCalls = 0
    /\ lastResponse = NoResponse
    /\ fulfilled = {}
    /\ stalePredicts = {}
    /\ putsSinceClear = 0

(***************************************************************************)
(* RankSpec: the Ranker applied to every ScoreVector of length NumClasses  *)
(* drawn from a bounded set, and to the same vector shifted by a constant. *)
(***************************************************************************)
Gains == {1, 20}
Shifts == {-30, 7}

ScoreVectors ==
    { [i \in 1..NumClasses |-> gain * base[i]] :
        base \in [1..NumClasses -> 0..MaxLevel], gain \in Gains }

\* strictly increasing vectors: 1, 2, ..., with a jump after position k
Jumps == {0, 1, 5, 20}
IncreasingVectors ==
    { [i \in 1..NumClasses |-> i + (IF i > k THEN jump ELSE 0)] :
        k \in 0..NumClasses, jump \in Jumps }

RankInputs == ScoreVectors \cup IncreasingVectors

Shifted(arr, c) == [i \in 1..Len(arr) |-> arr[i] + c]

RankInit ==
    /\ AppIdle
    /\ raster = BlankRaster(1, 1)
    /\ phase = "input"
    /\ scores \in RankInputs
    /\ shift \in Shifts
    /\ ranking = <<>>
    /\ rankingShifted = <<>>
    /\ smoothing = FALSE
    /\ tensor = <<>>

rank ==
    /\ phase = "input"
    /\ phase' = "done"
    /\ ranking' = Ranker(scores)
    /\ rankingShifted' = Ranker(Shifted(scores, shift))
    /\ UNCHANGED <<appVars, raster, scores, shift, smoothing, tensor>>

RankNext == rank

RankSpec == RankInit /\ [][RankNext]_vars

(***************************************************************************)
(* PreSpec: preprocessCanvas applied to every source raster of a bounded   *)
(* set of dimensions and colours.                                          *)
(***************************************************************************)
Translucent == <<90, 30, 200, 128>>
Red == <<255, 0, 0, 255>>
Colours == {White, Black, Transparent, Translucent, Red}

\* the w x h raster whose pixels alternate between c1 and c2 (uniform if c1 = c2)
Checker(w, h, c1, c2) ==
    [w |-> w, h |-> h,
     px |-> [k \in 1..(w * h) |->
                IF (((k - 1) % w) + ((k - 1) \div w)) % 2 = 0 THEN c1 ELSE c2]]

Rasters ==
    { Checker(w, h, c1, c2) : w \in 1..MaxW, h \in 1..MaxH, c1 \in Colours, c2 \in Colours }

PreInit ==
    /\ AppIdle
    /\ raster \in Rasters
    /\ phase = "input"
    /\ scores = <<>>
    /\ shift = 0
    /\ ranking = <<>>
    /\ rankingShifted = <<>>
    /\ smoothing \in BOOLEAN
    /\ tensor = <<>>

preprocess ==
    /\ phase = "input"
    /\ phase' = "done"
    /\ tensor' = preprocessCanvas(raster, smoothing)
    /\ UNCHANGED <<appVars, raster, scores, shift, ranking, rankingShifted, smoothing>>

PreNext == preprocess

PreSpec == PreInit /\ [][PreNext]_vars

(***************************************************************************)
(* Spec: the component.  Init is the state after mount, with loadModel()   *)
(* suspended at `await ort.InferenceSession.create`.  A Predict or Save    *)
(* click that returns early changes no React state; it is still counted.   *)
(* The drawing canvas is one cell: blank, or inked by a stroke.            *)
(***************************************************************************)
MsgDraw == <<"Please draw a digit before saving", 0>>
MsgSaved == <<"This drawing has already been saved", 0>>
MsgError == <<"Error uploading image", 0>>
\* `Successfully uploaded image ${uploadCount + 1}!`
MsgSuccess(n) == <<"Successfully uploaded image", n>>

\* what session.run may answer: the model's output vector is not under the
\* component's control, in length or in values
ModelOutputs ==
    { [i \in 1..NumClasses |-> IF i = NumClasses THEN 10 ELSE 0],
      [i \in 1..NumClasses |-> i],
      <<2, -1, 2>>,
      <<>> }

\* the Ranking of each of these outputs, computed once
Rankings ==
    [outputData \in ModelOutputs |->
        IF softmaxThrows(outputData) THEN <<>> ELSE Ranker(outputData)]

consoleError(kind) == console' = [console EXCEPT ![kind] = @ + 1]

Init ==
    /\ isDrawing = FALSE
    /\ predictions = <<>>
    /\ session = "null"
    /\ uploadCount = 0
    /\ saveMessage = NoMessage
    /\ canvasModified = FALSE
    /\ currentDrawingSaved = FALSE
    /\ raster = BlankRaster(1, 1)
    /\ loadState = "loading"
    /\ pendingPredicts = {}
    /\ pendingSaves = {}
    /\ console = [k \in ErrorKinds |-> 0]
    /\ loadCalls = 1
    /\ predictCalls = 0 /\ inferenceCalls = 0
    /\ saveCalls = 0 /\ putCalls = 0
    /\ lastResponse = NoResponse
    /\ fulfilled = {}
    /\ stalePredicts = {}
    /\ putsSinceClear = 0
    /\ phase = "app"
    /\ scores = <<>> /\ shift = 0 /\ ranking = <<>> /\ rankingShifted = <<>>
    /\ smoothing = FALSE /\ tensor = <<>>

\* ---- loadModel (App.tsx 21-32) ----
\* `await ort.InferenceSession.create` fulfils: setSession(session)
loadModelFulfilled ==
    /\ phase = "app" /\ loadState = "loading"
    /\ loadState' = "loaded"
    /\ session' = "session"
    /\ UNCHANGED <<isDrawing, predictions, uploadCount, saveMessage, canvasModified,
                   currentDrawingSaved, raster, pendingPredicts, pendingSaves, console,
                   loadCalls, predictCalls, inferenceCalls, saveCalls, putCalls,
                   lastResponse, fulfilled, stalePredicts, putsSinceClear, pureVars>>

\* it rejects: console.error, then the rethrow is an unhandled rejection
loadModelRejected ==
    /\ phase = "app" /\ loadState = "loading"
    /\ loadState' = "failed"
    /\ consoleError("Failed to load model")
    /\ UNCHANGED <<isDrawing, predictions, session, uploadCount, saveMessage,
                   canvasModified, currentDrawingSaved, raster, pendingPredicts,
                   pendingSaves, loadCalls, predictCalls, inferenceCalls, saveCalls,
                   putCalls, lastResponse, fulfilled, stalePredicts, putsSinceClear,
                   pureVars>>

\* ---- drawing (App.tsx 34-104) ----
drawingFrame == <<predictions, session, uploadCount, saveMessage, currentDrawingSaved,
                  loadState, pendingPredicts, pendingSaves, console, loadCalls,
                  predictCalls, inferenceCalls, saveCalls, putCalls, lastResponse,
                  fulfilled, stalePredicts, putsSinceClear, pureVars>>

startDrawing ==
    /\ phase = "app"
    /\ isDrawing' = TRUE
    /\ UNCHANGED <<drawingFrame, raster, canvasModified>>

handleTouchStart ==
    /\ phase = "app"
    /\ isDrawing' = TRUE
    /\ UNCHANGED <<drawingFrame, raster, canvasModified>>

\* ctx.lineTo(...); setCanvasModified(true); ctx.stroke(): the cell under the
\* pointer is inked in the default stroke colour, opaque black
stroke(p) == raster' = [raster EXCEPT !.px[p] = Black]

draw(p) ==
    /\ phase = "app"
    /\ isDrawing
    /\ stroke(p)
    /\ canvasModified' = TRUE
    /\ UNCHANGED <<drawingFrame, isDrawing>>

handleTouchMove(p) ==
    /\ phase = "app"
    /\ isDrawing
    /\ stroke(p)
    /\ canvasModified' = TRUE
    /\ UNCHANGED <<drawingFrame, isDrawing>>

stopDrawing ==
    /\ phase = "app"
    /\ isDrawing' = FALSE
    /\ UNCHANGED <<drawingFrame, raster, canvasModified>>

\* ---- clearCanvas (App.tsx 106-115) ----
\* clearCanvas of the variant without the two flags (part_000 86-95)
clearCanvasKeepsFlags ==
    /\ phase = "app"
    /\ raster' = BlankRaster(raster.w, raster.h)
    /\ predictions' = <<>>
    /\ lastResponse' = NoResponse
    /\ fulfilled' = {}
    /\ stalePredicts' = pendingPredicts
    /\ putsSinceClear' = 0
    /\ UNCHANGED <<isDrawing, session, uploadCount, saveMessage, loadState,
                   pendingPredicts, pendingSaves, console, loadCalls, predictCalls,
                   inferenceCalls, saveCalls, putCalls, pureVars,
                   canvasModified, currentDrawingSaved>>

clearCanvas ==
    /\ phase = "app"
    /\ raster' = BlankRaster(raster.w, raster.h)
    /\ predictions' = <<>>
    /\ canvasModified' = FALSE
    /\ currentDrawingSaved' = FALSE
    /\ lastResponse' = NoResponse
    /\ fulfilled' = {}
    /\ stalePredicts' = pendingPredicts
    /\ putsSinceClear' = 0
    /\ UNCHANGED <<isDrawing, session, uploadCount, saveMessage, loadState,
                   pendingPredicts, pendingSaves, console, loadCalls, predictCalls,
                   inferenceCalls, saveCalls, putCalls, pureVars>>

\* ---- predict (App.tsx 144-175) ----
predictFrame == <<isDrawing, session, uploadCount, saveMessage, canvasModified,
                  currentDrawingSaved, raster, loadState, pendingSaves, loadCalls,
                  saveCalls, putCalls, putsSinceClear, pureVars>>

\* predict without its guard on the session
hasSessionUnchecked == TRUE

\* if (!session || !canvasRef.current) return;   (the canvas is mounted)
hasSession == session # "null"

\* a catch block that also resets the display: setPredictions([])
predictCatchClears ==
    /\ consoleError("Prediction error")
    /\ predictions' = <<>>

\* catch (error) { console.error('Prediction error:', error); }
predictCatch ==
    /\ consoleError("Prediction error")
    /\ predictions' = predictions

\* setPredictions guarded against stale responses: only the newest request publishes
setPredictionsIfNewest(id, ranked) ==
    predictions' = IF \E j \in fulfilled : j > id THEN predictions ELSE ranked

\* setPredictions(predictions), by the call that was suspended with this id
setPredictions(id, ranked) == predictions' = ranked

\* the click, up to `await session.run`.  tempCtxOk: getContext('2d') of the
\* temporary canvas is not null (else preprocessCanvas throws)
predict(tempCtxOk) ==
    /\ phase = "app"
    /\ predictCalls < MaxPredicts
    /\ predictCalls' = predictCalls + 1
    /\ IF ~hasSession
       THEN UNCHANGED <<predictions, console, pendingPredicts, inferenceCalls>>
       ELSE IF ~tempCtxOk
       THEN predictCatch /\ UNCHANGED <<pendingPredicts, inferenceCalls>>
       ELSE /\ inferenceCalls' = inferenceCalls + 1
            /\ pendingPredicts' = pendingPredicts \cup {predictCalls + 1}
            /\ UNCHANGED <<predictions, console>>
    /\ UNCHANGED <<predictFrame, lastResponse, fulfilled, stalePredicts>>

\* session.run fulfils with outputs.output.data = outputData
sessionRunFulfilled(id, outputData) ==
    /\ phase = "app"
    /\ id \in pendingPredicts
    /\ pendingPredicts' = pendingPredicts \ {id}
    /\ IF softmaxThrows(outputData)
       THEN predictCatch /\ UNCHANGED <<lastResponse, fulfilled>>
       ELSE /\ setPredictions(id, Rankings[outputData])
            /\ lastResponse' = [id |-> id, scores |-> outputData]
            /\ fulfilled' = fulfilled \cup {id}
            /\ UNCHANGED console
    /\ stalePredicts' = stalePredicts \ {id}
    /\ UNCHANGED <<predictFrame, predictCalls, inferenceCalls>>

\* a catch block that calls session.run once more
sessionRunRejectedRetries(id) ==
    /\ phase = "app"
    /\ id \in pendingPredicts
    /\ IF inferenceCalls <= MaxPredicts
       THEN /\ inferenceCalls' = inferenceCalls + 1
            /\ UNCHANGED <<pendingPredicts, predictions, console>>
       ELSE /\ pendingPredicts' = pendingPredicts \ {id}
            /\ predictCatch
            /\ UNCHANGED inferenceCalls
    /\ UNCHANGED <<predictFrame, predictCalls, lastResponse, fulfilled, stalePredicts>>

\* session.run rejects
sessionRunRejected(id) ==
    /\ phase = "app"
    /\ id \in pendingPredicts
    /\ pendingPredicts' = pendingPredicts \ {id}
    /\ predictCatch
    /\ stalePredicts' = stalePredicts \ {id}
    /\ UNCHANGED <<predictFrame, predictCalls, inferenceCalls, lastResponse, fulfilled>>

\* ---- saveImage, saveImageToGitHub (App.tsx 177-226) ----
saveFrame == <<isDrawing, predictions, session, canvasModified, raster, loadState,
               pendingPredicts, loadCalls, predictCalls, inferenceCalls,
               lastResponse, fulfilled, stalePredicts, pureVars>>

\* saveImage of the variant without the two guards (part_000)
saveImageUnguarded ==
    /\ phase = "app"
    /\ saveCalls < MaxSaves
    /\ saveCalls' = saveCalls + 1
    /\ putCalls' = putCalls + 1
    /\ putsSinceClear' = putsSinceClear + 1
    /\ pendingSaves' = pendingSaves \cup
          {[id |-> saveCalls + 1, uploadCount |-> uploadCount, content |-> raster]}
    /\ UNCHANGED saveMessage
    /\ UNCHANGED <<saveFrame, uploadCount, currentDrawingSaved, console>>

\* the click, up to `await axios.put`; the suspended call keeps the values its
\* render closed over: uploadCount, and the PNG of the canvas
saveImage ==
    /\ phase = "app"
    /\ saveCalls < MaxSaves
    /\ saveCalls' = saveCalls + 1
    /\ IF ~canvasModified
       THEN saveMessage' = MsgDraw /\ UNCHANGED <<pendingSaves, putCalls, putsSinceClear>>
       ELSE IF currentDrawingSaved
       THEN saveMessage' = MsgSaved /\ UNCHANGED <<pendingSaves, putCalls, putsSinceClear>>
       ELSE /\ putCalls' = putCalls + 1
            /\ putsSinceClear' = putsSinceClear + 1
            /\ pendingSaves' = pendingSaves \cup
                  {[id |-> saveCalls + 1, uploadCount |-> uploadCount, content |-> raster]}
            /\ UNCHANGED saveMessage
    /\ UNCHANGED <<saveFrame, uploadCount, currentDrawingSaved, console>>

\* axios.put fulfils (with a response that has data.content.html_url):
\* saveImageToGitHub returns, then saveImage calls setCurrentDrawingSaved(true)
axiosPutFulfilled(s) ==
    /\ phase = "app"
    /\ s \in pendingSaves
    /\ pendingSaves' = pendingSaves \ {s}
    /\ uploadCount' = uploadCount + 1
    /\ saveMessage' = MsgSuccess(s.uploadCount + 1)
    /\ currentDrawingSaved' = TRUE
    /\ UNCHANGED <<saveFrame, saveCalls, putCalls, putsSinceClear, console>>

\* axios.put rejects: saveImageToGitHub catches the error and returns normally,
\* then saveImage calls setCurrentDrawingSaved(true) all the same
axiosPutRejected(s) ==
    /\ phase = "app"
    /\ s \in pendingSaves
    /\ pendingSaves' = pendingSaves \ {s}
    /\ saveMessage' = MsgError
    /\ consoleError("Error saving image to GitHub")
    /\ currentDrawingSaved' = TRUE
    /\ UNCHANGED <<saveFrame, saveCalls, putCalls, putsSinceClear, uploadCount>>

Cells == 1..(raster.w * raster.h)

Next ==
    \/ loadModelFulfilled
    \/ loadModelRejected
    \/ startDrawing
    \/ handleTouchStart
    \/ \E p \in Cells : draw(p)
    \/ \E p \in Cells : handleTouchMove(p)
    \/ stopDrawing
    \/ clearCanvas
    \/ \E tempCtxOk \in BOOLEAN : predict(tempCtxOk)
    \/ \E id \in pendingPredicts, outputData \in ModelOutputs :
          sessionRunFulfilled(id, outputData)
    \/ \E id \in pendingPredicts : sessionRunRejected(id)
    \/ saveImage
    \/ \E s \in pendingSaves : axiosPutFulfilled(s)
    \/ \E s \in pendingSaves : axiosPutRejected(s)

Spec == Init /\ [][Next]_vars

(***************************************************************************)
(* Properties.                                                             *)
(***************************************************************************)
Logged(kind) == console'[kind] > console[kind]

\* C1: a rejected upload does not mark the current drawing as saved (so that
\* saving it again is not blocked as already saved).
C1_FailedUploadNotMarkedSaved ==
    [][Logged("Error saving image to GitHub") =>
          (currentDrawingSaved' => currentDrawingSaved)]_vars

\* C2: whatever the order of the requests, the displayed Ranking is the one
\* computed from the inference response that was fulfilled last (since the
\* last Clear); no older request's result is discarded.
C2_LastResolvedWins ==
    lastResponse # NoResponse => predictions = Ranker(lastResponse.scores)

\* two predictions were in flight, both are fulfilled, the older request last
C2_OlderResolvedLast ==
    /\ lastResponse # NoResponse
    /\ pendingPredicts = {}
    /\ \E j \in fulfilled : j > lastResponse.id
    /\ predictions = Ranker(lastResponse.scores)

\* C3: every error that is logged also sets a user-visible message.
C3_EveryErrorSurfaced ==
    [][(\E kind \in ErrorKinds : Logged(kind)) => saveMessage' = MsgError]_vars

\* C4: a failed predict request (preprocessing throws, inference rejects,
\* post-processing throws) leaves the displayed Ranking exactly as it was.
C4_FailedPredictKeepsRanking ==
    [][Logged("Prediction error") => predictions' = predictions]_vars

\* a prediction has failed while a Ranking is displayed
C4_FailedWhileDisplayed ==
    /\ console["Prediction error"] > 0
    /\ Len(predictions) = NumClasses
    /\ fulfilled # {}

\* C5: the displayed Ranking never has a length other than 0 or NumClasses.
C5_RankingLength == Len(predictions) \in {0, NumClasses}

\* C6: the model is loaded exactly once; once the load has failed the session
\* stays unset, no predict calls inference or changes the displayed Ranking.
C6_LoadFailureIsFatal ==
    /\ loadCalls = 1
    /\ loadState = "failed" =>
          /\ session = "null"
          /\ inferenceCalls = 0
          /\ pendingPredicts = {}
          /\ predictions = <<>>

\* the load has failed and Predict was clicked as often as the model allows
C6_PredictAfterFailedLoad ==
    /\ loadState = "failed"
    /\ console["Failed to load model"] = 1
    /\ predictCalls = MaxPredicts

Descending(r) ==
    \A i, j \in 1..Len(r) :
        i < j => \/ r[i].probability > r[j].probability
                 \/ /\ r[i].probability = r[j].probability
                    /\ r[i].digit < r[j].digit

\* C7: the Ranking of a length-NumClasses ScoreVector is ordered by
\* non-increasing probability, equal probabilities by ascending digit.
C7_RankingOrder ==
    phase = "done" /\ Len(scores) = NumClasses =>
        /\ Len(ranking) = NumClasses /\ Descending(ranking)
        /\ Len(rankingShifted) = NumClasses /\ Descending(rankingShifted)

\* a Ranking with a tie and with a strict descent
C7_TieAndDescent ==
    /\ phase = "done" /\ Len(ranking) = NumClasses
    /\ \E i \in 1..(NumClasses - 1) : ranking[i].probability = ranking[i + 1].probability
    /\ \E i \in 1..(NumClasses - 1) : ranking[i].probability > ranking[i + 1].probability

Tolerance == ProbOne \div 1000000

IsDistribution(r) ==
    /\ \A i \in 1..Len(r) : r[i].probability >= 0 /\ r[i].probability <= ProbOne
    /\ Abs(SumSeq([i \in 1..Len(r) |-> r[i].probability]) - ProbOne) <= Tolerance

\* C8: for a ScoreVector of length NumClasses every probability lies in [0, 1]
\* and the probabilities sum to 1 within 1e-6.
C8_Distribution ==
    phase = "done" /\ Len(scores) = NumClasses =>
        IsDistribution(ranking) /\ IsDistribution(rankingShifted)

\* a Ranking in which several digits share the mass and one underflows to 0
C8_SharedMass ==
    /\ phase = "done" /\ Len(ranking) = NumClasses
    /\ ranking[1].probability < ProbOne
    /\ ranking[2].probability > 0
    /\ ranking[NumClasses].probability = 0

\* C9: adding the same constant to every score leaves the Ranking identical.
C9_ShiftInvariance ==
    phase = "done" /\ Len(scores) = NumClasses => rankingShifted = ranking

\* a non-uniform Ranking of a vector that was shifted
C9_ShiftedNonUniform ==
    /\ phase = "done" /\ Len(ranking) = NumClasses
    /\ shift # 0
    /\ ranking[1].probability > ranking[NumClasses].probability
    /\ rankingShifted = ranking

Uniform(canvas, colour) == \A k \in DOMAIN canvas.px : canvas.px[k] = colour

AllEqual(t, v) == Len(t) = TempSize * TempSize /\ \A k \in 1..Len(t) : t[k] = v

\* C10: an all-white or entirely blank (transparent) raster yields 784 values
\* -1, an all-black raster 784 values +1.
C10_UniformRasters ==
    phase = "done" /\ tensor # <<>> =>
        /\ Uniform(raster, White) \/ Uniform(raster, Transparent)
              => AllEqual(tensor, -NormalizedOne)
        /\ Uniform(raster, Black) => AllEqual(tensor, NormalizedOne)

\* a blank raster of more than one pixel has been preprocessed
C10_BlankPreprocessed ==
    /\ phase = "done"
    /\ raster.w > 1 /\ raster.h > 1
    /\ Uniform(raster, Transparent)
    /\ AllEqual(tensor, -NormalizedOne)

\* the raster with every pixel made opaque
Opaque(canvas) ==
    [canvas EXCEPT !.px = [k \in DOMAIN canvas.px |->
        <<canvas.px[k][1], canvas.px[k][2], canvas.px[k][3], 255>>]]

\* (255 - (r + g + b) / 3) / 255 * 2 - 1, in units of 1 / NormalizedOne
GrayValue(r, g, b) == NormalizedOne - 2 * (r + g + b)

TensorShape ==
    LET dest == drawImage(fillRect, raster, smoothing)
    IN  /\ Len(tensor) = TempSize * TempSize
        /\ \A k \in 1..Len(tensor) :
              /\ tensor[k] >= -NormalizedOne /\ tensor[k] <= NormalizedOne
              /\ tensor[k] = GrayValue(dest[k][1], dest[k][2], dest[k][3])

\* C11 (as claimed): the output has 784 entries in [-1, 1], entry k from
\* destination pixel k, and the alpha channel of the raster's pixels never
\* affects an entry: the raster made opaque gives the same tensor.
C11_AlphaNeverMatters ==
    phase = "done" /\ tensor # <<>> =>
        TensorShape /\ tensor = preprocessCanvas(Opaque(raster), smoothing)

\* C11 (amended): the output has 784 entries in [-1, 1]; entry k is computed
\* from the red, green and blue bytes of destination pixel k (row-major) and
\* from nothing else: the alpha byte of the destination pixel is not read.
C11_TensorShape == phase = "done" /\ tensor # <<>> => TensorShape

\* a raster of two colours, one of them translucent, with entries inside (-1, 1)
C11_MixedRaster ==
    /\ phase = "done"
    /\ raster.w > 1
    /\ \E k \in DOMAIN raster.px : raster.px[k] = Translucent
    /\ tensor[1] # tensor[TempSize]
    /\ \E k \in 1..Len(tensor) : tensor[k] > -NormalizedOne /\ tensor[k] < NormalizedOne

StrictlyIncreasing(arr) == \A i \in 1..(Len(arr) - 1) : arr[i] < arr[i + 1]

\* digits 9, 8, ..., 0 with strictly decreasing probabilities
DescendingDigits(r) ==
    /\ \A i \in 1..Len(r) : r[i].digit = Len(r) - i
    /\ \A i \in 1..(Len(r) - 1) : r[i].probability > r[i + 1].probability

Distinct(r) ==
    \A i, j \in 1..Len(r) : i # j => r[i].probability # r[j].probability

\* C12 (as claimed): every strictly increasing ScoreVector is ranked
\* 9, 8, ..., 0 with strictly decreasing probabilities.
C12_IncreasingScores ==
    phase = "done" /\ Len(scores) = NumClasses /\ StrictlyIncreasing(scores) =>
        DescendingDigits(ranking)

\* C12 (amended): a strictly increasing ScoreVector whose ten probabilities
\* are distinct, as those of 1, 2, ..., 10 are, is ranked 9, 8, ..., 0 with
\* strictly decreasing probabilities.
C12_IncreasingDistinct ==
    phase = "done" /\ Len(scores) = NumClasses /\ StrictlyIncreasing(scores) =>
        /\ Distinct(ranking) => DescendingDigits(ranking)
        /\ scores = [i \in 1..NumClasses |-> i] => Distinct(ranking)

\* the vector 1, 2, ..., 10 has been ranked
C12_OneToTen ==
    /\ phase = "done"
    /\ scores = [i \in 1..NumClasses |-> i]
    /\ DescendingDigits(ranking)

AllScoresEqual(arr) == \A i \in 1..Len(arr) : arr[i] = arr[1]

TenthEach(r) == \A i \in 1..Len(r) : r[i].probability * NumClasses = ProbOne

\* C13: ten equal scores give probability exactly 1/10 to every digit.
C13_UniformScores ==
    phase = "done" /\ Len(scores) = NumClasses /\ AllScoresEqual(scores) =>
        TenthEach(ranking) /\ TenthEach(rankingShifted)

\* ten equal non-zero scores have been ranked
C13_EqualNonZero ==
    /\ phase = "done" /\ Len(ranking) = NumClasses
    /\ AllScoresEqual(scores) /\ scores[1] # 0
    /\ TenthEach(ranking)

\* C14: nothing is retried: session.run is called only by a Predict click and
\* axios.put only by a Save click, once per click; no completion, fulfilled or
\* rejected, calls either again.
C14_NoRetry ==
    [][/\ inferenceCalls' # inferenceCalls =>
            inferenceCalls' = inferenceCalls + 1 /\ predictCalls' = predictCalls + 1
       /\ putCalls' # putCalls =>
            putCalls' = putCalls + 1 /\ saveCalls' = saveCalls + 1]_vars

\* one inference and one upload were made, both failed, and nothing is pending
C14_BothFailedOnce ==
    /\ predictCalls = 1 /\ inferenceCalls = 1 /\ pendingPredicts = {}
    /\ console["Prediction error"] = 1
    /\ saveCalls = 1 /\ putCalls = 1 /\ pendingSaves = {}
    /\ console["Error saving image to GitHub"] = 1

\* C15: a Save click on a canvas not drawn on since the last Clear, or on a
\* drawing already marked saved, issues no PUT, leaves the upload count and
\* the saved flag unchanged and only sets the corresponding message.
C15_GuardedSave ==
    [][saveCalls' # saveCalls /\ (~canvasModified \/ currentDrawingSaved) =>
          /\ putCalls' = putCalls
          /\ pendingSaves' = pendingSaves
          /\ uploadCount' = uploadCount
          /\ currentDrawingSaved' = currentDrawingSaved
          /\ saveMessage' = IF ~canvasModified THEN MsgDraw ELSE MsgSaved
          /\ UNCHANGED <<predictions, canvasModified, raster, console>>]_vars

\* a drawing was uploaded and a second Save click was turned away
C15_SecondSaveRefused ==
    /\ saveMessage = MsgSaved
    /\ uploadCount = 1
    /\ saveCalls = 2 /\ putCalls = 1

\* C16: between two consecutive Clears at most one PUT is issued, under
\* every interleaving of Save clicks and upload completions.
C16_OnePutPerDrawing == putsSinceClear <= 1

\* C17: after a Clear the displayed Ranking stays empty until a predict
\* invoked after that Clear resolves: the display changes to a non-empty
\* Ranking only when such a predict resolves, never when one invoked before
\* the Clear does.
C17_StaleNeverDisplayed ==
    [][predictions' # predictions /\ predictions' # <<>> =>
          \E id \in pendingPredicts \ stalePredicts : id \notin pendingPredicts']_vars

\* C18: the saved flag is true only if the drawing made since the last Clear
\* was the content of a save, that is, only if a PUT was issued since then.
C18_SavedOnlyIfUploaded == currentDrawingSaved => putsSinceClear >= 1

\* C19: Clear empties the raster and the displayed Ranking and resets the
\* canvas-modified flag and the saved flag, leaving the session, the upload
\* count and the save message unchanged.
C19_ClearEffect ==
    [][clearCanvas =>
          /\ raster' = BlankRaster(raster.w, raster.h)
          /\ predictions' = <<>>
          /\ canvasModified' = FALSE
          /\ currentDrawingSaved' = FALSE
          /\ UNCHANGED <<session, uploadCount, saveMessage>>]_vars

\* after an upload and a prediction, Clear has reset the flags and the display
\* and kept the session, the upload count and the message of the upload
C19_ClearedAfterUpload ==
    /\ session = "session"
    /\ uploadCount = 1 /\ saveMessage = MsgSuccess(1)
    /\ fulfilled = {} /\ inferenceCalls > 0 /\ pendingPredicts = {}
    /\ raster = BlankRaster(raster.w, raster.h)
    /\ predictions = <<>>
    /\ ~canvasModified /\ ~currentDrawingSaved

\* C20: a non-empty displayed Ranking computed from a length-10 response has
\* ten entries, holds every digit 0..9 exactly once, and pairs each digit with
\* the probability softmax gives to that digit's own score.
C20_RankingIsPermutation ==
    predictions # <<>> /\ Len(lastResponse.scores) = NumClasses =>
        /\ Len(predictions) = NumClasses
        /\ \A d \in 0..(NumClasses - 1) :
              Cardinality({i \in 1..Len(predictions) : predictions[i].digit = d}) = 1
        /\ \A i \in 1..Len(predictions) :
              /\ predictions[i].digit \in 0..(NumClasses - 1)
              /\ predictions[i].probability =
                    softmax(lastResponse.scores)[predictions[i].digit + 1]

\* the response 1, 2, ..., 10 is displayed, digit 9 first
C20_TenDisplayed ==
    /\ lastResponse.scores = [i \in 1..NumClasses |-> i]
    /\ Len(predictions) = NumClasses
    /\ predictions[1].digit = NumClasses - 1

=============================================================================
